---------------------------- MODULE Spec2Model ----------------------------
(***************************************************************************)
(* A model of the raster-paint program in src/src/main.rs: the AppState    *)
(* record, the RGBA bitmap behind the RwLock, the pointer / button / text  *)
(* handlers and draw_on_canvas, with the 32-bit integer arithmetic of the  *)
(* stamp kept at its real width.                                           *)
(*                                                                         *)
(* The bitmap is CanvasW x CanvasH instead of 800 x 600, and the on-screen *)
(* canvas (the viewport) has the same size as the bitmap, as in the        *)
(* program.  Pointer positions are given in half pixels, so that the       *)
(* truncating conversion to a pixel coordinate is visible.                 *)
(***************************************************************************)
EXTENDS Integers, Sequences, FiniteSets, TLC

----------------------------------------------------------------------------
(* Bounds of the model *)

CanvasW == 4
CanvasH == 3
MaxSteps == 3
MaxOps == 2

(* The viewport has the size of the bitmap: fix_size(800, 600) and
   RgbaImage::new(800, 600). *)
ViewW == CanvasW
ViewH == CanvasH

(* Pointer positions are counted in units of 1/PosUnit pixel. *)
PosUnit == 2

----------------------------------------------------------------------------
(* 32-bit machine integers.  An i32 is a TLA+ integer in MinI32..MaxI32; a
   u32 is a pair of 16-bit limbs, value hi * 2^16 + lo. *)

MaxI32 == 2147483647
MinI32 == -MaxI32 - 1
Limb == 65536
HalfLimb == 32768

Max(a, b) == IF a >= b THEN a ELSE b
Min(a, b) == IF a <= b THEN a ELSE b

U32FromNat(n) == [hi |-> n \div Limb, lo |-> n % Limb]
U32Zero == [hi |-> 0, lo |-> 0]
U32IsZero(u) == u.hi = 0 /\ u.lo = 0
U32Lt(a, b) == a.hi < b.hi \/ (a.hi = b.hi /\ a.lo < b.lo)
U32Le(a, b) == a = b \/ U32Lt(a, b)

(* `v as u32` : reinterpretation of the two's complement bit pattern *)
AsU32(v) ==
  IF v >= 0 THEN U32FromNat(v)
  ELSE LET m == v - MinI32
       IN  [hi |-> HalfLimb + (m \div Limb), lo |-> m % Limb]

(* `u as i32` *)
AsI32(u) ==
  IF u.hi < HalfLimb THEN u.hi * Limb + u.lo
  ELSE (u.hi - Limb) * Limb + u.lo

(* a - b on u32: the wrapped difference and whether it underflowed *)
U32Sub(a, b) ==
  LET borrow == IF a.lo < b.lo THEN 1 ELSE 0
  IN  [v  |-> [hi |-> (a.hi - b.hi - borrow) % Limb, lo |-> (a.lo - b.lo) % Limb],
       ov |-> U32Lt(a, b)]

(* a + b on i32: the wrapped sum and whether it overflowed *)
I32Add(a, b) ==
  IF b > 0 /\ a > MaxI32 - b
    THEN [v |-> (a - MaxI32 - 1) + (b - MaxI32 - 1), ov |-> TRUE]
  ELSE IF b < 0 /\ a < MinI32 - b
    THEN [v |-> (a + MaxI32 + 1) + (b + MaxI32 + 1), ov |-> TRUE]
  ELSE [v |-> a + b, ov |-> FALSE]

(* a - b on i32 *)
I32Sub(a, b) ==
  IF b < 0 /\ a > MaxI32 + b
    THEN [v |-> (a - MaxI32 - 1) - (b + MaxI32 + 1), ov |-> TRUE]
  ELSE IF b > 0 /\ a < MinI32 + b
    THEN [v |-> (a + MaxI32 + 1) - (b - MaxI32 - 1), ov |-> TRUE]
  ELSE [v |-> a - b, ov |-> FALSE]

(* Long multiplication on little-endian sequences of four bytes; the product
   has eight bytes. *)
U32Bytes(u) == <<u.lo % 256, u.lo \div 256, u.hi % 256, u.hi \div 256>>
BytesU32(s) == [hi |-> s[4] * 256 + s[3], lo |-> s[2] * 256 + s[1]]

MulTerm(a, b, i, j) == IF i \in 1..4 /\ j \in 1..4 THEN a[i] * b[j] ELSE 0
MulColumn(a, b, k) ==
  MulTerm(a, b, 1, k) + MulTerm(a, b, 2, k - 1) + MulTerm(a, b, 3, k - 2)
    + MulTerm(a, b, 4, k - 3)

RECURSIVE MulCarry(_, _, _)
MulCarry(a, b, k) ==
  IF k = 0 THEN 0 ELSE (MulColumn(a, b, k) + MulCarry(a, b, k - 1)) \div 256

MulBytes(a, b) ==
  [k \in 1..8 |-> (MulColumn(a, b, k) + MulCarry(a, b, k - 1)) % 256]

(* |v| as a u32 (|MinI32| = 2^31 does not fit an i32) *)
I32Magnitude(v) ==
  IF v >= 0 THEN U32FromNat(v)
  ELSE IF v = MinI32 THEN [hi |-> HalfLimb, lo |-> 0]
  ELSE U32FromNat(-v)

SqrtMaxI32 == 46340

(* The i32 product, given the low 64 bits `low` of the product of the two bit
   patterns, the product `mag` of the two magnitudes and its sign *)
I32Product(low, mag, neg) ==
  [v  |-> AsI32(BytesU32(<<low[1], low[2], low[3], low[4]>>)),
   ov |-> /\ \E k \in 4..8 : mag[k] >= (IF k = 4 THEN 128 ELSE 1)
          /\ ~(neg /\ mag = <<0, 0, 0, 128, 0, 0, 0, 0>>)]

(* a * b on i32: the wrapped product and whether it overflowed *)
I32Mul(a, b) ==
  IF /\ a >= -SqrtMaxI32 /\ a <= SqrtMaxI32
     /\ b >= -SqrtMaxI32 /\ b <= SqrtMaxI32
    THEN [v |-> a * b, ov |-> FALSE]
  ELSE I32Product(MulBytes(U32Bytes(AsU32(a)), U32Bytes(AsU32(b))),
                  MulBytes(U32Bytes(I32Magnitude(a)), U32Bytes(I32Magnitude(b))),
                  (a < 0) # (b < 0))

(* `f as i32` for a quotient n / d with d > 0: truncation toward zero *)
TruncDiv(n, d) == IF n >= 0 \/ n % d = 0 THEN n \div d ELSE (n \div d) + 1

----------------------------------------------------------------------------
(* Text: a sequence of one-character strings. *)

DigitValue ==
  [c \in {"0", "1", "2", "3", "4", "5", "6", "7", "8", "9"} |->
     CASE c = "0" -> 0 [] c = "1" -> 1 [] c = "2" -> 2 [] c = "3" -> 3
       [] c = "4" -> 4 [] c = "5" -> 5 [] c = "6" -> 6 [] c = "7" -> 7
       [] c = "8" -> 8 [] c = "9" -> 9]

(* The digit loop of str::parse for an unsigned type with maximum max:
   acc * 10 + digit, an error on a non-digit and on overflow. *)
RECURSIVE ParseDigits(_, _, _)
ParseDigits(text, acc, max) ==
  IF text = <<>> THEN [ok |-> TRUE, val |-> acc]
  ELSE IF Head(text) \notin DOMAIN DigitValue THEN [ok |-> FALSE, val |-> U32Zero]
  ELSE LET lo2 == acc.lo * 10 + DigitValue[Head(text)]
           hi2 == acc.hi * 10 + ((acc.lo * 10 + DigitValue[Head(text)]) \div Limb)
       IN  IF hi2 >= Limb \/ U32Lt(max, [hi |-> hi2, lo |-> lo2 % Limb])
             THEN [ok |-> FALSE, val |-> U32Zero]
           ELSE ParseDigits(Tail(text), [hi |-> hi2, lo |-> lo2 % Limb], max)

ParseUnsigned(text, max) ==
  IF text = <<>> THEN [ok |-> FALSE, val |-> U32Zero]
  ELSE IF Len(text) = 1 /\ Head(text) \in {"+", "-"} THEN [ok |-> FALSE, val |-> U32Zero]
  ELSE IF Head(text) = "+" THEN ParseDigits(Tail(text), U32Zero, max)
  ELSE ParseDigits(text, U32Zero, max)

(* str::parse::<u32> and str::parse::<u8> *)
ParseU32(text) == ParseUnsigned(text, [hi |-> Limb - 1, lo |-> Limb - 1])
ParseU8(text) == ParseUnsigned(text, [hi |-> 0, lo |-> 255])

----------------------------------------------------------------------------
(* Colours.  A druid Color is a packed 32-bit RGBA word (here a u32); a pixel
   of the RgbaImage is the tuple of its four channels. *)

rgba8(r, g, b, a) == [hi |-> r * 256 + g, lo |-> b * 256 + a]
rgb8(r, g, b) == rgba8(r, g, b, 255)
as_rgba8(c) == <<c.hi \div 256, c.hi % 256, c.lo \div 256, c.lo % 256>>

WHITE == rgb8(255, 255, 255)
BLACK == rgb8(0, 0, 0)
WhitePixel == <<255, 255, 255, 255>>

Pixels == (0..(CanvasW - 1)) \X (0..(CanvasH - 1))

(* The three background buttons: White, Gray, Transparent. *)
BackgroundButtons == {<<255, 255, 255, 255>>, <<128, 128, 128, 255>>, <<0, 0, 0, 0>>}

(* Palette buttons of the model: Red, Brown, Black, each with the colour it
   sets and the three channel texts it writes. *)
PaletteButtons ==
  { [rgb |-> <<255, 0, 0>>, r |-> <<"2", "5", "5">>, g |-> <<"0">>, b |-> <<"0">>],
    [rgb |-> <<139, 69, 19>>, r |-> <<"1", "3", "9">>, g |-> <<"6", "9">>, b |-> <<"1", "9">>],
    [rgb |-> <<0, 0, 0>>, r |-> <<"0">>, g |-> <<"0">>, b |-> <<"0">>] }

(* Texts the user types into the brush-size box before pressing Enter. *)
SizeTexts ==
  { <<"0">>, <<"a", "b", "c">>, <<"1", "2">>, <<"1">>, <<"2">>,
    <<"4", "6", "3", "4", "1">>,
    <<"2", "1", "4", "7", "4", "8", "3", "6", "4", "7">>,
    <<"4", "2", "9", "4", "9", "6", "7", "2", "9", "5">> }

(* Pointer positions, in 1/PosUnit pixels of the viewport: inside the canvas,
   on its corners, between two pixels, and outside on each side. *)
At(x, y) == <<x * PosUnit, y * PosUnit>>
PointerPositions ==
  { At(1, 1), At(0, 0), At(CanvasW - 1, CanvasH - 1), <<-1, PosUnit + 1>>,
    At(-2, 1), At(-3, 1), At(-7, 1),
    At(CanvasW + 1, 1), At(CanvasW + 2, 1), At(CanvasW + 6, 1),
    At(1, -3), At(1, CanvasH + 2) }

----------------------------------------------------------------------------
(* State *)

VARIABLES
  image,              \* the RgbaImage behind AppState.image
  brush_color, is_drawing, brush_size, current_tool, brush_shape,
  brush_size_input, color_r_input, color_g_input, color_b_input,
  background_color,   \* the other fields of AppState
  status,             \* "running", "aborted" (panic or abort), "exited"
  overflow_checks,    \* the build: TRUE panics on integer overflow, FALSE wraps
  last,               \* history: the last handler, the bitmap before it, its stamp
  steps,              \* number of handlers run
  lock, threads, committed, ops   \* the lock-level view, see the end of the module

app == <<brush_color, is_drawing, brush_size, current_tool, brush_shape,
         brush_size_input, color_r_input, color_g_input, color_b_input,
         background_color>>
conc == <<lock, threads, committed, ops>>
vars == <<image, app, status, overflow_checks, last, steps, conc>>

NoRect == [valid |-> FALSE, x0 |-> 0, y0 |-> 0, w |-> 0, h |-> 0]
NoStamp ==
  [drew |-> FALSE, x_center |-> 0, y_center |-> 0, radius |-> 0,
   shape |-> "Square", color |-> WhitePixel, completed |-> FALSE, overflow |-> FALSE,
   dirty |-> NoRect]

----------------------------------------------------------------------------
(* draw_on_canvas *)

(* v * view / canvas on f64, for an integer v; exact when view = canvas *)
ScaleToView(v, view, canvas) ==
  LET q == TruncDiv(v, canvas)
      r == v - q * canvas
  IN  q * view + TruncDiv(r * view, canvas)

(* (pos * image.width() as f64 / 800.0) as i32, pos in 1/PosUnit pixels *)
ToCanvas(pos, view, canvas) == TruncDiv(pos * canvas, PosUnit * view)

(* x_min, x_max and x_max - x_min of the Square arm, for one axis: lo_raw is
   center - radius, hi1 is center + radius, hi2 is hi1 + 1 *)
SquareBounds(lo_raw, hi1, hi2, min, max, len) ==
  [min |-> min, max |-> max, len |-> len.v,
   ov |-> lo_raw.ov \/ hi1.ov \/ hi2.ov \/ len.ov]

SquareEnds(lo_raw, hi1, hi2, min, max) ==
  SquareBounds(lo_raw, hi1, hi2, min, max, U32Sub(max, min))

SquareSums(lo_raw, hi1, hi2, dim) ==
  SquareEnds(lo_raw, hi1, hi2, AsU32(Max(lo_raw.v, 0)), AsU32(Min(hi2.v, dim)))

SquareUpper(lo_raw, hi1, dim) == SquareSums(lo_raw, hi1, I32Add(hi1.v, 1), dim)

SquareSpan(center, radius, dim) ==
  SquareUpper(I32Sub(center, radius), I32Add(center, radius), dim)

(* RgbaImage::from_pixel(w, h, color): "ok" when the buffer is empty or no
   larger than the canvas, "panic" when 4 * w * h overflows a 64-bit usize,
   "may_fail" for any other size (2^31 pixels or more), which the host may or
   may not be able to allocate. *)
from_pixel(w, h) ==
  IF U32IsZero(w) \/ U32IsZero(h) THEN "ok"
  ELSE IF U32Le(w, U32FromNat(CanvasW)) /\ U32Le(h, U32FromNat(CanvasH)) THEN "ok"
  ELSE IF MulBytes(U32Bytes(w), U32Bytes(h))[8] >= 64 THEN "panic"
  ELSE "may_fail"

(* imageops::replace(bottom, top, x, y): the pixels of bottom that receive a
   pixel of top, top being w x h and placed at (x, y) with x, y >= 0 *)
replace(x, y, w, h) ==
  { p \in Pixels : /\ p[1] >= x /\ U32Lt(U32FromNat(p[1] - x), w)
                   /\ p[2] >= y /\ U32Lt(U32FromNat(p[2] - y), h) }

Paint(img, region, color) ==
  [p \in Pixels |-> IF p \in region THEN color ELSE img[p]]

(* The Square arm, given its two spans and the outcome of from_pixel:
   whether the process dies in it, whether an operation overflowed, and the
   pixels it writes *)
SquareBrush(xs, ys, alloc, alloc_ok) ==
  IF overflow_checks /\ (xs.ov \/ ys.ov)
    THEN [aborted |-> TRUE, ov |-> TRUE, region |-> {}]
  ELSE IF alloc = "panic" \/ (alloc = "may_fail" /\ ~alloc_ok)
    THEN [aborted |-> TRUE, ov |-> xs.ov \/ ys.ov, region |-> {}]
  ELSE [aborted |-> FALSE, ov |-> xs.ov \/ ys.ov,
        region |-> replace(AsI32(xs.min), AsI32(ys.min), xs.len, ys.len)]

SquareSpans(xs, ys, alloc_ok) == SquareBrush(xs, ys, from_pixel(xs.len, ys.len), alloc_ok)

StampSquare(x_center, y_center, radius, alloc_ok) ==
  SquareSpans(SquareSpan(x_center, radius, CanvasW),
              SquareSpan(y_center, radius, CanvasH), alloc_ok)

(* Bounds of an inclusive range of the Circle arm, for one axis: lo_raw is
   center - radius, hi_raw is center + radius *)
CircleBounds(lo_raw, hi_raw, dim) ==
  [lo |-> Max(lo_raw.v, 0), hi |-> Min(hi_raw.v, dim - 1),
   ov |-> lo_raw.ov \/ hi_raw.ov]

CircleSpan(center, radius, dim) ==
  CircleBounds(I32Sub(center, radius), I32Add(center, radius), dim)

(* dx * dx + dy * dy <= radius * radius, rr being radius * radius *)
CircleCompare(dx, dy, dxx, dyy, sum, rr) ==
  [inside |-> sum.v <= rr.v,
   ov |-> dx.ov \/ dy.ov \/ dxx.ov \/ dyy.ov \/ sum.ov \/ rr.ov]

CircleSquares(dx, dy, dxx, dyy, rr) ==
  CircleCompare(dx, dy, dxx, dyy, I32Add(dxx.v, dyy.v), rr)

CircleDeltas(dx, dy, rr) ==
  CircleSquares(dx, dy, I32Mul(dx.v, dx.v), I32Mul(dy.v, dy.v), rr)

CircleTest(p, x_center, y_center, rr) ==
  CircleDeltas(I32Sub(p[1], x_center), I32Sub(p[2], y_center), rr)

(* The order of the Circle loops: x outermost, y innermost *)
VisitedBefore(q, p) == q[1] < p[1] \/ (q[1] = p[1] /\ q[2] <= p[2])

(* The Circle arm, as the Square arm, given its two spans, the pixels its
   loops visit and the test of each; a panic stops the loops at the first
   overflowing test. *)
CircleBrush(xs, ys, visited, test) ==
  IF ~overflow_checks
    THEN [aborted |-> FALSE,
          ov |-> xs.ov \/ (xs.lo <= xs.hi /\ ys.ov) \/ \E p \in visited : test[p].ov,
          region |-> { p \in visited : test[p].inside }]
  ELSE IF xs.ov \/ (xs.lo <= xs.hi /\ ys.ov)
    THEN [aborted |-> TRUE, ov |-> TRUE, region |-> {}]
  ELSE [aborted |-> \E p \in visited : test[p].ov,
        ov |-> \E p \in visited : test[p].ov,
        region |-> { p \in visited :
                       /\ test[p].inside
                       /\ \A q \in visited : VisitedBefore(q, p) => ~test[q].ov }]

CircleVisit(xs, ys, visited, x_center, y_center, rr) ==
  CircleBrush(xs, ys, visited, [p \in visited |-> CircleTest(p, x_center, y_center, rr)])

CircleSpans(xs, ys, x_center, y_center, radius) ==
  CircleVisit(xs, ys,
              { p \in Pixels : /\ xs.lo <= p[1] /\ p[1] <= xs.hi
                               /\ ys.lo <= p[2] /\ p[2] <= ys.hi },
              x_center, y_center, I32Mul(radius, radius))

StampCircle(x_center, y_center, radius) ==
  CircleSpans(CircleSpan(x_center, radius, CanvasW), CircleSpan(y_center, radius, CanvasH),
              x_center, y_center, radius)

(* Rect::from_origin_size(...): [ov, rect], x0 and y0 being the center minus
   the radius and d being radius * 2 *)
DirtyRectOf(x0, y0, d) ==
  [ov |-> x0.ov \/ y0.ov \/ d.ov,
   rect |-> [valid |-> TRUE,
             x0 |-> ScaleToView(x0.v, ViewW, CanvasW),
             y0 |-> ScaleToView(y0.v, ViewH, CanvasH),
             w |-> ScaleToView(d.v, ViewW, CanvasW),
             h |-> ScaleToView(d.v, ViewH, CanvasH)]]

DirtyRect(x_center, y_center, radius) ==
  DirtyRectOf(I32Sub(x_center, radius), I32Sub(y_center, radius), I32Mul(radius, 2))

(* draw_on_canvas(state, pos, ctx) on bitmap img: the new bitmap, whether the
   process survived, and the parameters and dirty rectangle of the stamp *)
Stamped(img, x_center, y_center, radius, color, stamped, dirty, done) ==
  [image |-> Paint(img, stamped.region, color),
   region |-> stamped.region,
   aborted |-> ~done,
   stamp |-> [drew |-> TRUE, x_center |-> x_center, y_center |-> y_center,
              radius |-> radius, shape |-> brush_shape, color |-> color,
              completed |-> done,
              overflow |-> stamped.ov \/ (~stamped.aborted /\ dirty.ov),
              dirty |-> IF done THEN dirty.rect ELSE NoRect]]

StampAndRect(img, x_center, y_center, radius, color, stamped, dirty) ==
  Stamped(img, x_center, y_center, radius, color, stamped, dirty,
          ~stamped.aborted /\ ~(overflow_checks /\ dirty.ov))

StampAt(img, x_center, y_center, radius, color, alloc_ok) ==
  StampAndRect(img, x_center, y_center, radius, color,
               IF brush_shape = "Square"
                 THEN StampSquare(x_center, y_center, radius, alloc_ok)
                 ELSE StampCircle(x_center, y_center, radius),
               DirtyRect(x_center, y_center, radius))

draw_on_canvas(img, pos, alloc_ok) ==
  StampAt(img, ToCanvas(pos[1], ViewW, CanvasW), ToCanvas(pos[2], ViewH, CanvasH),
          AsI32(brush_size),
          IF current_tool = "Brush" THEN as_rgba8(brush_color)
          ELSE as_rgba8(background_color),
          alloc_ok)

(* The threads of the lock-level view: the toolkit's event thread, which
   runs every handler, and the render passes that read the bitmap. *)
Renderers == {"render"}
Threads == {"ui"} \cup Renderers

IdleThread == [pc |-> "idle", queue |-> <<>>, color |-> WhitePixel, dies |-> FALSE, seen |-> <<>>]

----------------------------------------------------------------------------
(* The event handlers, each one atomic: the toolkit delivers events on one
   thread, and every handler takes and releases the bitmap lock itself. *)

InitImage == [p \in Pixels |-> WhitePixel]

Handled(op, st, rgba, text, failed) ==
  [op |-> op, pre |-> image, stamp |-> st, rgba |-> rgba, text |-> text,
   size_before |-> brush_size, io_failed |-> failed]

Init ==
  /\ image = InitImage
  /\ brush_color = BLACK
  /\ is_drawing = FALSE
  /\ brush_size = U32FromNat(5)
  /\ current_tool = "Brush"
  /\ brush_shape = "Square"
  /\ brush_size_input = <<"5">>
  /\ color_r_input = <<"0">>
  /\ color_g_input = <<"0">>
  /\ color_b_input = <<"0">>
  /\ background_color = WHITE
  /\ status = "running"
  /\ overflow_checks \in BOOLEAN
  /\ last = [op |-> "launch", pre |-> InitImage, stamp |-> NoStamp, rgba |-> WhitePixel,
             text |-> <<>>, size_before |-> U32FromNat(5), io_failed |-> FALSE]
  /\ steps = 0
  /\ lock = [writer |-> FALSE, readers |-> {}]
  /\ threads = [t \in Threads |-> IdleThread]
  /\ committed = InitImage
  /\ ops = 0

Running == status = "running" /\ steps < MaxSteps

(* The effect of a call of draw_on_canvas with result res in handler op *)
Drawn(op, res) ==
  /\ image' = res.image
  /\ status' = IF res.aborted THEN "aborted" ELSE "running"
  /\ last' = Handled(op, res.stamp, WhitePixel, <<>>, FALSE)

(* CanvasController::event, Event::MouseDown.  The 16 ms throttle only decides
   whether request_anim_frame is called; it changes nothing modelled here. *)
MouseDown(pos, alloc_ok) ==
  /\ Running
  /\ Drawn("MouseDown", draw_on_canvas(image, pos, alloc_ok))
  /\ is_drawing' = TRUE
  /\ steps' = steps + 1
  /\ UNCHANGED <<brush_color, brush_size, current_tool, brush_shape, brush_size_input,
                 color_r_input, color_g_input, color_b_input, background_color,
                 overflow_checks, conc>>

(* MouseMove without the `if data.is_drawing` guard *)
MouseMove_unguarded(pos, alloc_ok) ==
  /\ Running
  /\ Drawn("MouseMove", draw_on_canvas(image, pos, alloc_ok))
  /\ steps' = steps + 1
  /\ UNCHANGED <<app, overflow_checks, conc>>

(* CanvasController::event, Event::MouseMove *)
MouseMove(pos, alloc_ok) ==
  /\ Running
  /\ IF is_drawing
       THEN Drawn("MouseMove", draw_on_canvas(image, pos, alloc_ok))
       ELSE /\ UNCHANGED <<image, status>>
            /\ last' = Handled("MouseMove", NoStamp, WhitePixel, <<>>, FALSE)
  /\ steps' = steps + 1
  /\ UNCHANGED <<app, overflow_checks, conc>>

(* CanvasController::event, Event::MouseUp *)
MouseUp ==
  /\ Running
  /\ is_drawing' = FALSE
  /\ last' = Handled("MouseUp", NoStamp, WhitePixel, <<>>, FALSE)
  /\ steps' = steps + 1
  /\ UNCHANGED <<image, brush_color, brush_size, current_tool, brush_shape,
                 brush_size_input, color_r_input, color_g_input, color_b_input,
                 background_color, status, overflow_checks, conc>>

(* The Brush, Eraser, Square and Circle buttons *)
SelectTool(tool) ==
  /\ Running
  /\ current_tool' = tool
  /\ last' = Handled("SelectTool", NoStamp, WhitePixel, <<>>, FALSE)
  /\ steps' = steps + 1
  /\ UNCHANGED <<image, brush_color, is_drawing, brush_size, brush_shape,
                 brush_size_input, color_r_input, color_g_input, color_b_input,
                 background_color, status, overflow_checks, conc>>

SelectBrushShape(shape) ==
  /\ Running
  /\ brush_shape' = shape
  /\ last' = Handled("SelectBrushShape", NoStamp, WhitePixel, <<>>, FALSE)
  /\ steps' = steps + 1
  /\ UNCHANGED <<image, brush_color, is_drawing, brush_size, current_tool,
                 brush_size_input, color_r_input, color_g_input, color_b_input,
                 background_color, status, overflow_checks, conc>>

SizeIfParsed(parsed, size) == IF parsed.ok THEN parsed.val ELSE size

(* if let Ok(size) = ... { if size > 0 { data.brush_size = size } } *)
SizeIfPositive(parsed, size) ==
  IF parsed.ok /\ U32Lt(U32Zero, parsed.val) THEN parsed.val ELSE size

(* CommittedSize without the `if size > 0` test *)
CommittedSize_any(text, size) == SizeIfParsed(ParseU32(text), size)

(* TextBoxController::event of the brush-size box: the size the Enter key
   commits, given the text of the box *)
CommittedSize(text, size) == SizeIfPositive(ParseU32(text), size)

(* The user has typed text into the brush-size box and presses Enter. *)
CommitBrushSizeInput(text) ==
  /\ Running
  /\ brush_size_input' = text
  /\ brush_size' = CommittedSize(text, brush_size)
  /\ last' = Handled("CommitBrushSizeInput", NoStamp, WhitePixel, text, FALSE)
  /\ steps' = steps + 1
  /\ UNCHANGED <<image, brush_color, is_drawing, current_tool, brush_shape,
                 color_r_input, color_g_input, color_b_input, background_color,
                 status, overflow_checks, conc>>

(* One channel of update_brush_color: parse::<u8>().unwrap_or(0).clamp(0, 255) *)
ChannelOf(parsed) == Max(0, Min(IF parsed.ok THEN parsed.val.lo ELSE 0, 255))

Channel(text) == ChannelOf(ParseU8(text))

update_brush_color == rgb8(Channel(color_r_input), Channel(color_g_input), Channel(color_b_input))

(* TextBoxController::event of a colour box: Enter *)
CommitColorInput ==
  /\ Running
  /\ brush_color' = update_brush_color
  /\ last' = Handled("CommitColorInput", NoStamp, WhitePixel, <<>>, FALSE)
  /\ steps' = steps + 1
  /\ UNCHANGED <<image, is_drawing, brush_size, current_tool, brush_shape,
                 brush_size_input, color_r_input, color_g_input, color_b_input,
                 background_color, status, overflow_checks, conc>>

(* A palette button *)
SelectPaletteColor(button) ==
  /\ Running
  /\ brush_color' = rgb8(button.rgb[1], button.rgb[2], button.rgb[3])
  /\ color_r_input' = button.r
  /\ color_g_input' = button.g
  /\ color_b_input' = button.b
  /\ last' = Handled("SelectPaletteColor", NoStamp, WhitePixel, <<>>, FALSE)
  /\ steps' = steps + 1
  /\ UNCHANGED <<image, is_drawing, brush_size, current_tool, brush_shape,
                 brush_size_input, background_color, status, overflow_checks, conc>>

(* set_background_color that repaints only the pixels still white *)
set_background_color_unpainted(img, color) ==
  [p \in Pixels |-> IF img[p] = WhitePixel THEN as_rgba8(color) ELSE img[p]]

(* set_background_color(state, color): the new bitmap *)
set_background_color(img, color) == [p \in Pixels |-> as_rgba8(color)]

(* A background button, with the channels of its colour literal *)
SetBackground(rgba) ==
  /\ Running
  /\ background_color' = rgba8(rgba[1], rgba[2], rgba[3], rgba[4])
  /\ image' = set_background_color(image, rgba8(rgba[1], rgba[2], rgba[3], rgba[4]))
  /\ last' = Handled("SetBackground", NoStamp, rgba, <<>>, FALSE)
  /\ steps' = steps + 1
  /\ UNCHANGED <<brush_color, is_drawing, brush_size, current_tool, brush_shape,
                 brush_size_input, color_r_input, color_g_input, color_b_input,
                 status, overflow_checks, conc>>

(* The Save Image button: image.save("output.png").expect(...); io_ok is
   whether the write succeeds. *)
SaveStatus(io_ok) == IF io_ok THEN "running" ELSE "aborted"

SaveImage(io_ok) ==
  /\ Running
  /\ status' = SaveStatus(io_ok)
  /\ last' = Handled("SaveImage", NoStamp, WhitePixel, <<>>, ~io_ok)
  /\ steps' = steps + 1
  /\ UNCHANGED <<image, app, overflow_checks, conc>>

(* The Clear Canvas button *)
ClearCanvas ==
  /\ Running
  /\ image' = [p \in Pixels |-> WhitePixel]
  /\ last' = Handled("ClearCanvas", NoStamp, WhitePixel, <<>>, FALSE)
  /\ steps' = steps + 1
  /\ UNCHANGED <<app, status, overflow_checks, conc>>

(* The EXIT button: std::process::exit(0) *)
Exit ==
  /\ Running
  /\ status' = "exited"
  /\ last' = Handled("Exit", NoStamp, WhitePixel, <<>>, FALSE)
  /\ steps' = steps + 1
  /\ UNCHANGED <<image, app, overflow_checks, conc>>

Next ==
  \/ \E pos \in PointerPositions, alloc_ok \in BOOLEAN : MouseDown(pos, alloc_ok)
  \/ \E pos \in PointerPositions, alloc_ok \in BOOLEAN : MouseMove(pos, alloc_ok)
  \/ MouseUp
  \/ \E tool \in {"Brush", "Eraser"} : SelectTool(tool)
  \/ \E shape \in {"Square", "Circle"} : SelectBrushShape(shape)
  \/ \E text \in SizeTexts : CommitBrushSizeInput(text)
  \/ CommitColorInput
  \/ \E button \in PaletteButtons : SelectPaletteColor(button)
  \/ \E rgba \in BackgroundButtons : SetBackground(rgba)
  \/ \E io_ok \in BOOLEAN : SaveImage(io_ok)
  \/ ClearCanvas
  \/ Exit

Spec == Init /\ [][Next]_vars

----------------------------------------------------------------------------
(* What a stamp is meant to cover, stated on unbounded integers: size is the
   committed brush size, a u32. *)

AbsDiff(a, b) == IF a >= b THEN a - b ELSE b - a

SquareFootprint(cx, cy, size) ==
  { p \in Pixels : /\ U32Le(U32FromNat(AbsDiff(p[1], cx)), size)
                   /\ U32Le(U32FromNat(AbsDiff(p[2], cy)), size) }

CircleFootprint(cx, cy, size) ==
  { p \in Pixels :
      LET dx == AbsDiff(p[1], cx)
          dy == AbsDiff(p[2], cy)
      IN  \/ size.hi > 0
          \/ size.lo > SqrtMaxI32
          \/ dx * dx + dy * dy <= size.lo * size.lo }

Footprint(shape, cx, cy, size) ==
  IF shape = "Square" THEN SquareFootprint(cx, cy, size) ELSE CircleFootprint(cx, cy, size)

Modified == { p \in Pixels : image[p] # last.pre[p] }

CenterInCanvas == <<last.stamp.x_center, last.stamp.y_center>> \in Pixels

(* A pixel lies inside a rectangle when its unit square does. *)
InRect(p, rect) ==
  /\ rect.valid
  /\ rect.w >= 0 /\ rect.h >= 0
  /\ rect.x0 <= ScaleToView(p[1], ViewW, CanvasW)
  /\ ScaleToView(p[1] + 1, ViewW, CanvasW) - rect.w <= rect.x0
  /\ rect.y0 <= ScaleToView(p[2], ViewH, CanvasH)
  /\ ScaleToView(p[2] + 1, ViewH, CanvasH) - rect.h <= rect.y0

----------------------------------------------------------------------------
(* C1: a stamp at any center, inside or outside the canvas, with any
   committed brush size and either shape, completes without error or abort
   and changes only pixels of its footprint that lie on the canvas. *)
C1_StampNeverFails ==
  last.stamp.drew =>
    /\ status = "running"
    /\ last.stamp.completed
    /\ Modified \subseteq
         Footprint(last.stamp.shape, last.stamp.x_center, last.stamp.y_center,
                   last.size_before)

(* C2: a Square stamp of radius r >= 0 whose center is on the canvas sets exactly the pixels
   of [cx-r, cx+r+1) x [cy-r, cy+r+1) that lie on the canvas to the stamp
   colour and leaves every other pixel as it was. *)
C2_SquareStampExact ==
  (last.stamp.drew /\ last.stamp.shape = "Square" /\ last.stamp.radius >= 0
     /\ CenterInCanvas) =>
    image = Paint(last.pre,
                  SquareFootprint(last.stamp.x_center, last.stamp.y_center,
                                  last.size_before),
                  last.stamp.color)

(* C3: a Circle stamp of radius r >= 0 whose center is on the canvas sets exactly the pixels
   on the canvas at squared distance <= r^2 from the center to the stamp
   colour and leaves every other pixel as it was. *)
C3_CircleStampExact ==
  (last.stamp.drew /\ last.stamp.shape = "Circle" /\ last.stamp.radius >= 0
     /\ CenterInCanvas) =>
    image = Paint(last.pre,
                  CircleFootprint(last.stamp.x_center, last.stamp.y_center,
                                  last.size_before),
                  last.stamp.color)

(* The stamps of C2 and C3 are exact whenever the size survives the
   conversion to i32 and no operation of the stamp's arithmetic overflows. *)
StampExactUnlessOverflow ==
  (last.stamp.drew /\ CenterInCanvas /\ last.stamp.radius > 0 /\ ~last.stamp.overflow) =>
    /\ last.stamp.completed
    /\ image = Paint(last.pre,
                     Footprint(last.stamp.shape, last.stamp.x_center,
                               last.stamp.y_center, last.size_before),
                     last.stamp.color)

(* C7: the dirty rectangle of a stamp contains every pixel the stamp
   modified, those of column cx+radius and row cy+radius included. *)
C7_DirtyRectCoversStamp ==
  (last.stamp.drew /\ last.stamp.completed) =>
    \A p \in Modified : InRect(p, last.stamp.dirty)

(* C8: a failed write of "output.png" does not end the process and leaves
   the canvas and the paint state as they were. *)
C8_SaveFailureRecoverable ==
  (last.op = "SaveImage" /\ last.io_failed) =>
    /\ status = "running"
    /\ image = last.pre

(* C10: the radius a stamp uses, the stored size converted to i32, equals the
   stored size and is positive, and no operation of the stamp's arithmetic
   overflows or underflows. *)
C10_RadiusExactNoOverflow ==
  /\ AsI32(brush_size) > 0
  /\ U32FromNat(AsI32(brush_size)) = brush_size
  /\ last.stamp.drew => ~last.stamp.overflow

(* C4: a pointer-move stamps exactly when the drawing flag is set on its
   arrival; a pointer-move with the flag clear and every pointer-up leave
   the bitmap as it is; the flag is set only by pointer-down and cleared only
   by pointer-up. *)
C4_MoveStampsOnlyWhileDrawing ==
  [][ /\ (last'.op = "MouseMove" => (last'.stamp.drew <=> is_drawing))
      /\ ((last'.op = "MouseMove" /\ ~is_drawing) => image' = image)
      /\ (last'.op = "MouseUp" => image' = image)
      /\ ((is_drawing' /\ ~is_drawing) => last'.op = "MouseDown")
      /\ ((~is_drawing' /\ is_drawing) => last'.op = "MouseUp") ]_vars

(* a pointer-move that changed pixels, the flag being set *)
C4_Witness ==
  last.op = "MouseMove" /\ last.stamp.drew /\ is_drawing /\ Modified # {}

(* C5: after a background button, whatever was drawn before, every pixel of
   the bitmap and the stored background colour equal the button's colour. *)
C5_BackgroundFillsCanvas ==
  last.op = "SetBackground" =>
    /\ \A p \in Pixels : image[p] = last.rgba
    /\ as_rgba8(background_color) = last.rgba

(* a background change over a partly stamped canvas *)
C5_Witness ==
  /\ last.op = "SetBackground"
  /\ last.rgba # WhitePixel
  /\ \E p, q \in Pixels : last.pre[p] # last.pre[q]

(* The number a text of at most nine decimal digits denotes. *)
RECURSIVE DecimalValue(_, _)
DecimalValue(text, acc) ==
  IF text = <<>> THEN acc ELSE DecimalValue(Tail(text), acc * 10 + DigitValue[Head(text)])

IsShortNumber(text) ==
  /\ Len(text) \in 1..9
  /\ \A i \in 1..Len(text) : text[i] \in DOMAIN DigitValue

IsNumber(text) ==
  /\ Len(text) >= 1
  /\ \A i \in 1..Len(text) : text[i] \in DOMAIN DigitValue

(* C6: Enter in the brush-size box sets the brush size to n when the text
   denotes an integer n > 0 and leaves it as it was when the text is not a
   number or denotes 0; the brush size is > 0 in every state. *)
C6_BrushSizeCommit ==
  /\ U32Lt(U32Zero, brush_size)
  /\ last.op = "CommitBrushSizeInput" =>
       /\ last.text = <<"1", "2">> => brush_size = [hi |-> 0, lo |-> 12]
       /\ last.text \in {<<"0">>, <<"a", "b", "c">>} => brush_size = last.size_before
       /\ (IsShortNumber(last.text) /\ DecimalValue(last.text, 0) > 0) =>
            /\ brush_size.hi * Limb + brush_size.lo = DecimalValue(last.text, 0)
            /\ brush_size.hi < HalfLimb
       /\ (IsShortNumber(last.text) /\ DecimalValue(last.text, 0) = 0) =>
            brush_size = last.size_before
       /\ ~IsNumber(last.text) => brush_size = last.size_before
       /\ last.text = <<"2", "1", "4", "7", "4", "8", "3", "6", "4", "7">> =>
            brush_size = [hi |-> HalfLimb - 1, lo |-> Limb - 1]
       /\ last.text = <<"4", "2", "9", "4", "9", "6", "7", "2", "9", "5">> =>
            brush_size = [hi |-> Limb - 1, lo |-> Limb - 1]

(* "0" committed after "12": the size stays 12 *)
C6_Witness ==
  /\ last.op = "CommitBrushSizeInput"
  /\ last.text = <<"0">>
  /\ last.size_before = [hi |-> 0, lo |-> 12]
  /\ brush_size = [hi |-> 0, lo |-> 12]

----------------------------------------------------------------------------
(* The lock-level view.  A handler that mutates the bitmap takes the write
   lock (state.image.write()), writes its pixels one at a time in the order
   of its loops and drops the guard when it returns; the Painter closure and
   the Save button take the read lock (state.image.read()) and read the
   buffer pixel by pixel.  committed is the bitmap as the last completed
   mutation left it. *)

(* The i-th pixel of the raw buffer, row by row *)
PixelAt(i) == <<(i - 1) % CanvasW, (i - 1) \div CanvasW>>

(* Position of a pixel in the order a mutation writes: pixels_mut and
   replace go row by row, the Circle loops column by column *)
WriteKey(p, shape) ==
  IF shape = "Circle" THEN p[1] * CanvasH + p[2] ELSE p[2] * CanvasW + p[1]

RECURSIVE WriteOrder(_, _)
WriteOrder(region, shape) ==
  IF region = {} THEN <<>>
  ELSE LET first == CHOOSE p \in region :
                      \A q \in region : WriteKey(p, shape) <= WriteKey(q, shape)
       IN  <<first>> \o WriteOrder(region \ {first}, shape)

UiIdle == threads["ui"].pc = "idle"
CanStart == status = "running" /\ ops < MaxOps /\ UiIdle

(* RwLock::write: granted when no reader and no writer holds the lock *)
AcquireWrite(region, shape, color, dies) ==
  /\ ~lock.writer /\ lock.readers = {}
  /\ lock' = [lock EXCEPT !.writer = TRUE]
  /\ threads' = [threads EXCEPT !["ui"] =
                   [pc |-> "writing", queue |-> WriteOrder(region, shape),
                    color |-> color, dies |-> dies, seen |-> <<>>]]
  /\ ops' = ops + 1

(* state.image.write() of draw_on_canvas, res being the result of the call *)
AcquireStamp(res) == AcquireWrite(res.region, brush_shape, res.stamp.color, res.aborted)

(* MouseDown: is_drawing = true, then draw_on_canvas up to its first write *)
BeginMouseDown(pos, alloc_ok) ==
  /\ CanStart
  /\ is_drawing' = TRUE
  /\ AcquireStamp(draw_on_canvas(image, pos, alloc_ok))
  /\ UNCHANGED <<image, brush_color, brush_size, current_tool, brush_shape,
                 brush_size_input, color_r_input, color_g_input, color_b_input,
                 background_color, status, overflow_checks, last, steps, committed>>

(* MouseMove while drawing *)
BeginMouseMove(pos, alloc_ok) ==
  /\ CanStart
  /\ is_drawing
  /\ AcquireStamp(draw_on_canvas(image, pos, alloc_ok))
  /\ UNCHANGED <<image, app, status, overflow_checks, last, steps, committed>>

(* Clear Canvas *)
BeginClearCanvas ==
  /\ CanStart
  /\ AcquireWrite(Pixels, "Square", WhitePixel, FALSE)
  /\ UNCHANGED <<image, app, status, overflow_checks, last, steps, committed>>

(* A background button: background_color = color, then the fill *)
BeginSetBackground(rgba) ==
  /\ CanStart
  /\ background_color' = rgba8(rgba[1], rgba[2], rgba[3], rgba[4])
  /\ AcquireWrite(Pixels, "Square", as_rgba8(rgba8(rgba[1], rgba[2], rgba[3], rgba[4])), FALSE)
  /\ UNCHANGED <<image, brush_color, is_drawing, brush_size, current_tool, brush_shape,
                 brush_size_input, color_r_input, color_g_input, color_b_input,
                 status, overflow_checks, last, steps, committed>>

(* WriteStep taking and dropping the write lock around each pixel *)
WriteStep_per_pixel ==
  /\ status = "running"
  /\ threads["ui"].pc = "writing"
  /\ threads["ui"].queue # <<>>
  /\ lock.readers = {}
  /\ image' = [image EXCEPT ![Head(threads["ui"].queue)] = threads["ui"].color]
  /\ threads' = [threads EXCEPT !["ui"].queue = Tail(@)]
  /\ lock' = [lock EXCEPT !.writer = FALSE]
  /\ UNCHANGED <<app, status, overflow_checks, last, steps, committed, ops>>

(* One pixel write of the mutation in progress, under the guard taken at
   its start *)
WriteStep ==
  /\ status = "running"
  /\ threads["ui"].pc = "writing"
  /\ threads["ui"].queue # <<>>
  /\ image' = [image EXCEPT ![Head(threads["ui"].queue)] = threads["ui"].color]
  /\ threads' = [threads EXCEPT !["ui"].queue = Tail(@)]
  /\ UNCHANGED <<app, status, overflow_checks, last, steps, lock, committed, ops>>

(* The mutation returns and its guard is dropped, or the process dies in it *)
EndWrite ==
  /\ status = "running"
  /\ threads["ui"].pc = "writing"
  /\ threads["ui"].queue = <<>>
  /\ IF threads["ui"].dies
       THEN /\ status' = "aborted"
            /\ UNCHANGED <<lock, threads, committed>>
       ELSE /\ lock' = [lock EXCEPT !.writer = FALSE]
            /\ threads' = [threads EXCEPT !["ui"] = IdleThread]
            /\ committed' = image
            /\ UNCHANGED status
  /\ UNCHANGED <<image, app, overflow_checks, last, steps, ops>>

(* RwLock::read by the Painter closure (a render pass) or by the Save button
   (the event thread): granted when no writer holds the lock *)
BeginRead(t) ==
  /\ status = "running"
  /\ threads[t].pc = "idle"
  /\ ~lock.writer
  /\ lock' = [lock EXCEPT !.readers = @ \cup {t}]
  /\ threads' = [threads EXCEPT ![t] = [IdleThread EXCEPT !.pc = "reading"]]
  /\ UNCHANGED <<image, app, status, overflow_checks, last, steps, committed, ops>>

(* make_image / save read the next pixel of the raw buffer *)
ReadStep(t) ==
  /\ status = "running"
  /\ threads[t].pc = "reading"
  /\ Len(threads[t].seen) < CanvasW * CanvasH
  /\ threads' = [threads EXCEPT ![t].seen = Append(@, image[PixelAt(Len(@) + 1)])]
  /\ UNCHANGED <<image, app, status, overflow_checks, last, steps, lock, committed, ops>>

(* The read guard is dropped; a failed write of the file ends the process *)
EndRead(t, io_ok) ==
  /\ status = "running"
  /\ threads[t].pc = "reading"
  /\ Len(threads[t].seen) = CanvasW * CanvasH
  /\ IF t = "ui" /\ ~io_ok
       THEN /\ status' = "aborted"
            /\ UNCHANGED <<lock, threads>>
       ELSE /\ lock' = [lock EXCEPT !.readers = @ \ {t}]
            /\ threads' = [threads EXCEPT ![t] = IdleThread]
            /\ UNCHANGED status
  /\ UNCHANGED <<image, app, overflow_checks, last, steps, committed, ops>>

NextConc ==
  \/ \E pos \in PointerPositions, alloc_ok \in BOOLEAN : BeginMouseDown(pos, alloc_ok)
  \/ \E pos \in PointerPositions, alloc_ok \in BOOLEAN : BeginMouseMove(pos, alloc_ok)
  \/ BeginClearCanvas
  \/ \E rgba \in BackgroundButtons : BeginSetBackground(rgba)
  \/ WriteStep
  \/ EndWrite
  \/ \E t \in Threads : BeginRead(t)
  \/ \E t \in Threads : ReadStep(t)
  \/ \E t \in Threads, io_ok \in BOOLEAN : EndRead(t, io_ok)

(* The lock-level view starts from the states the Circle button and a
   committed size of 1 lead to from the launch state, the canvas still
   untouched. *)
InitConc ==
  /\ image = InitImage
  /\ brush_color = BLACK
  /\ is_drawing = FALSE
  /\ \E text \in {<<"5">>, <<"1">>} :
       /\ brush_size_input = text
       /\ brush_size = CommittedSize(text, U32FromNat(5))
  /\ current_tool = "Brush"
  /\ brush_shape \in {"Square", "Circle"}
  /\ color_r_input = <<"0">>
  /\ color_g_input = <<"0">>
  /\ color_b_input = <<"0">>
  /\ background_color = WHITE
  /\ status = "running"
  /\ overflow_checks \in BOOLEAN
  /\ last = [op |-> "launch", pre |-> InitImage, stamp |-> NoStamp, rgba |-> WhitePixel,
             text |-> <<>>, size_before |-> U32FromNat(5), io_failed |-> FALSE]
  /\ steps = 0
  /\ lock = [writer |-> FALSE, readers |-> {}]
  /\ threads = [t \in Threads |-> IdleThread]
  /\ committed = InitImage
  /\ ops = 0

SpecConc == InitConc /\ [][NextConc]_vars

(* C9: a mutation holds the write lock from its first to its last pixel
   write and a reader holds a read lock; no writer runs while a reader holds
   the lock, and no reader sees a partly written bitmap. *)
C9_ReadersNeverSeePartialWrites ==
  /\ lock.writer => lock.readers = {}
  /\ threads["ui"].pc = "writing" => lock.writer
  /\ image # committed => lock.writer
  /\ \A t \in Threads :
       threads[t].pc = "reading" =>
         /\ t \in lock.readers
         /\ image = committed
         /\ \A i \in 1..Len(threads[t].seen) : threads[t].seen[i] = committed[PixelAt(i)]

(* a render pass has read the whole of a partly painted bitmap that two
   mutations produced, while the Save button holds the lock as well *)
C9_Witness ==
  /\ \E t \in Renderers :
       /\ threads[t].pc = "reading"
       /\ Len(threads[t].seen) = CanvasW * CanvasH
       /\ \E u \in Threads \ {t} : u \in lock.readers
  /\ ops = 2
  /\ \E p, q \in Pixels : image[p] # image[q]

=============================================================================
